---- MODULE Spec2Model ----
(***************************************************************************)
(* Model of .github/scripts/sync.py: the parallel skopeo mirror script.    *)
(*                                                                         *)
(* Text is modelled as a sequence of atoms.  An atom is a string that the  *)
(* script never looks inside: a separator character (" ", "/", ":", "@",   *)
(* "=", "_", "-", "#"), the literal "--platform", or a word made of other  *)
(* characters.  Python's str operations are modelled on these sequences.   *)
(***************************************************************************)
EXTENDS Integers, Sequences, FiniteSets, TLC

\* ------------------------------------------------------------------------
\* Bounds of the model
\* ------------------------------------------------------------------------
MaxLines == 3
MaxTasks == 3
MaxConcurrentBound == 2
MaxRetryBound == 1

\* ------------------------------------------------------------------------
\* Python string primitives on atom sequences
\* ------------------------------------------------------------------------
Whitespace == {" ", "\t"}

Last(s) == s[Len(s)]

\* str.split(sep) for a separator drawn from seps: every occurrence cuts,
\* empty pieces are kept.
SplitOnSet(s, seps) ==
    LET f[i \in 0..Len(s)] ==
          IF i = 0 THEN << <<>> >>
          ELSE LET p == f[i-1] IN
               IF s[i] \in seps THEN Append(p, <<>>)
               ELSE [p EXCEPT ![Len(p)] = Append(@, s[i])]
    IN f[Len(s)]

SplitOn(s, sep) == SplitOnSet(s, {sep})

\* str.split() without argument: runs of whitespace cut, no empty pieces.
SplitWs(s) == SelectSeq(SplitOnSet(s, Whitespace), LAMBDA t : t # <<>>)

\* str.replace(a, b) for single atoms
Replace(s, a, b) == [i \in 1..Len(s) |-> IF s[i] = a THEN b ELSE s[i]]

\* str.strip()
RECURSIVE Strip(_)
Strip(s) ==
    IF s = <<>> THEN s
    ELSE IF Head(s) \in Whitespace THEN Strip(Tail(s))
    ELSE IF Last(s) \in Whitespace THEN Strip(SubSeq(s, 1, Len(s) - 1))
    ELSE s

\* re.search(r"--platform(?:[ =])([^ \t]+)", line) followed by
\* m.group(1).strip(); <<>> stands for "no match" (platform is None).
PlatformOf(line) ==
    LET hits == {i \in 1..Len(line) :
                    /\ line[i] = "--platform"
                    /\ i + 2 <= Len(line)
                    /\ line[i+1] \in {" ", "="}
                    /\ line[i+2] \notin Whitespace}
    IN IF hits = {} THEN <<>>
       ELSE LET i == CHOOSE h \in hits : \A k \in hits : h <= k
                rest == SubSeq(line, i + 2, Len(line))
            IN Strip(Head(SplitOnSet(rest, Whitespace)))

\* ------------------------------------------------------------------------
\* Configuration
\* ------------------------------------------------------------------------
Settings == {"ALIYUN_REGISTRY", "ALIYUN_NAME_SPACE",
             "ALIYUN_REGISTRY_USER", "ALIYUN_REGISTRY_PASSWORD"}

\* the value a setting has when the workflow passes it
SettingValue(k) ==
    CASE k = "ALIYUN_REGISTRY" -> <<"registry">>
      [] k = "ALIYUN_NAME_SPACE" -> <<"ns">>
      [] k = "ALIYUN_REGISTRY_USER" -> <<"user">>
      [] OTHER -> <<"secret">>

FullEnv == [k \in Settings |-> SettingValue(k)]

\* all([...]) over the four settings: unset and empty are both falsy
ConfigComplete(e) == \A k \in Settings : e[k] # <<>>

\* ------------------------------------------------------------------------
\* State
\* ------------------------------------------------------------------------
VARIABLES
    env,             \* the four ALIYUN_* settings; <<>> when unset
    MAX_CONCURRENT,  \* size of the semaphore
    RETRY_COUNT,     \* retries after the first attempt
    fileExists,      \* whether images.txt exists
    fileText,        \* the raw lines of images.txt
    origin,          \* the structured references the input lines were written from
    pc,              \* position of the main program
    lines,           \* result of parse_images_file
    scanPos,         \* number of lines detect_duplicates has consumed
    temp_map,        \* detect_duplicates: image name -> first namespace seen
    duplicates,      \* detect_duplicates: the flagged image names
    built,           \* results of build_skopeo_copy_cmd, one per line built
    sem,             \* free slots of the semaphore
    tasks,           \* per task: state, attempt counter, command, result
    copies,          \* number of skopeo copy invocations started so far
    results,         \* what gather returned, <<>> before that
    summary,         \* total / success / failed_items once tallied
    exitCode,        \* process exit code, -1 while running
    versionRc,       \* rc of "skopeo --version", -1 before it ran
    loginRc          \* rc of "skopeo login", -1 before it ran

vars == <<env, MAX_CONCURRENT, RETRY_COUNT, fileExists, fileText, origin, pc,
          lines, scanPos, temp_map, duplicates, built, sem, tasks, copies,
          results, summary, exitCode, versionRc, loginRc>>

\* ------------------------------------------------------------------------
\* detect_duplicates
\* ------------------------------------------------------------------------
\* image = line.split()[-1]
ImageOf(line) == Last(SplitWs(line))

\* image.split("@")[0]
NoDigest(image) == Head(SplitOn(image, "@"))

\* parts = image.split("/") of the digest-free image
PartsOf(line) == SplitOn(NoDigest(ImageOf(line)), "/")

\* image_name_tag = parts[-1]
ImageNameTag(line) == Last(PartsOf(line))

\* image_name = image_name_tag.split(":")[0]
ImageName(line) == Head(SplitOn(ImageNameTag(line), ":"))

\* the namespace chosen at lines 127-133, with its trailing "_"
NamespaceOf(line) ==
    LET parts == PartsOf(line)
        namespace == IF Len(parts) = 3 THEN parts[2]
                     ELSE IF Len(parts) = 2 THEN parts[1]
                     ELSE <<>>
    IN Append(namespace, "_")

EmptyMap == [n \in {} |-> <<>>]

\* one iteration of the for loop (lines 120-138)
ScanStepFlipping(tm, dups, line) ==
    LET image_name == ImageName(line)
        namespace == NamespaceOf(line)
    IN IF image_name \in DOMAIN tm /\ tm[image_name] # namespace
       THEN [temp_map |-> tm, duplicates |-> dups \cup {image_name}]
       ELSE [temp_map |-> [n \in DOMAIN tm \cup {image_name} |->
                              IF n = image_name THEN namespace ELSE tm[n]],
             duplicates |-> dups \ {image_name}]

ScanStep(tm, dups, line) ==
    LET image_name == ImageName(line)
        namespace == NamespaceOf(line)
    IN IF image_name \in DOMAIN tm /\ tm[image_name] # namespace
       THEN [temp_map |-> tm, duplicates |-> dups \cup {image_name}]
       ELSE [temp_map |-> [n \in DOMAIN tm \cup {image_name} |->
                              IF n = image_name THEN namespace ELSE tm[n]],
             duplicates |-> dups]

\* the state of the loop after the first k lines
ScanTo(ls, k) ==
    LET f[i \in 0..k] ==
          IF i = 0 THEN [temp_map |-> EmptyMap, duplicates |-> {}]
          ELSE LET before == f[i-1]
               IN ScanStep(before.temp_map, before.duplicates, ls[i])
    IN f[k]

\* the whole loop (lines 118-139)
detect_duplicates_early(ls) ==
    IF ls = <<>> THEN {} ELSE ScanTo(ls, Len(ls) - 1).duplicates

detect_duplicates(ls) == ScanTo(ls, Len(ls)).duplicates

\* ------------------------------------------------------------------------
\* build_skopeo_copy_cmd
\* ------------------------------------------------------------------------
Scheme == <<"docker", ":", "/", "/">>

\* prefix (lines 157-162)
PrefixAlways(line, dups) ==
    LET parts == PartsOf(line)
    IN IF Len(parts) >= 2 THEN Append(parts[Len(parts) - 1], "_") ELSE <<>>

PrefixOf(line, dups) ==
    LET parts == PartsOf(line)
    IN IF ImageName(line) \in dups
       THEN IF Len(parts) >= 2 THEN Append(parts[Len(parts) - 1], "_") ELSE <<>>
       ELSE <<>>

\* platform_suffix (lines 164-166)
PlatformSuffix(platform) ==
    IF platform # <<>> THEN <<"-">> \o Replace(platform, "/", "-") ELSE <<>>

\* the override flags (lines 173-178)
OverrideFlags(platform) ==
    IF platform # <<>>
    THEN LET parts_p == SplitOn(platform, "/")
             override_os == IF Len(parts_p) >= 1 /\ parts_p[1] # <<>>
                            THEN parts_p[1] ELSE <<"linux">>
             override_arch == IF Len(parts_p) >= 2 /\ parts_p[2] # <<>>
                              THEN parts_p[2] ELSE <<"amd64">>
         IN << <<"--override-os">>, override_os,
               <<"--override-arch">>, override_arch >>
    ELSE <<>>

\* the function body for given values of the globals ALIYUN_REGISTRY and
\* ALIYUN_NAME_SPACE (lines 17-18)
CopyCommand(registry, name_space, line, dups) ==
    LET platform == PlatformOf(line)
        image_no_digest == NoDigest(ImageOf(line))
        source == Scheme \o image_no_digest
        target == Scheme \o registry \o <<"/">>
                    \o name_space \o <<"/">>
                    \o PrefixOf(line, dups) \o ImageNameTag(line)
                    \o PlatformSuffix(platform)
        cmd == << <<"skopeo">>, <<"copy">> >> \o OverrideFlags(platform)
                 \o <<source, target>>
    IN [source |-> source, target |-> target, cmd |-> cmd]

build_skopeo_copy_cmd(line, dups) ==
    CopyCommand(env["ALIYUN_REGISTRY"], env["ALIYUN_NAME_SPACE"], line, dups)

\* ------------------------------------------------------------------------
\* Input lines: written out from structured references
\* ------------------------------------------------------------------------
NoPlatform == [pos |-> "none", form |-> "eq", plat |-> <<>>]
Before(form, plat) == [pos |-> "before", form |-> form, plat |-> plat]
After(form, plat) == [pos |-> "after", form |-> form, plat |-> plat]

\* a reference: the path segments before the final one, the image name,
\* the tag and the digest (each possibly empty), and its platform token
Reference(p, segs, name, tag, digest) ==
    [platform |-> p, segs |-> segs, name |-> name, tag |-> tag, digest |-> digest]

Latest == <<":", "latest">>
Sha == <<"@", "sha256", ":", "abc">>
Arm == <<"linux", "/", "arm64">>

ImageSpecs ==
    { Reference(NoPlatform, <<>>, "nginx", Latest, <<>>),
      Reference(NoPlatform, <<"library">>, "nginx", Latest, <<>>),
      Reference(NoPlatform, <<"otherorg">>, "nginx", Latest, <<>>),
      Reference(NoPlatform, <<"quay", "library">>, "nginx", Latest, <<>>),
      Reference(NoPlatform, <<"quay", "team", "library">>, "nginx", Latest, <<>>),
      Reference(NoPlatform, <<"library">>, "nginx", Latest, Sha),
      Reference(Before("sp", Arm), <<"library">>, "nginx", Latest, <<>>),
      Reference(Before("eq", Arm), <<"otherorg">>, "app", <<>>, <<>>),
      Reference(After("eq", Arm), <<"otherorg">>, "app", <<>>, <<>>),
      Reference(Before("eq", <<"arm64">>), <<"library">>, "app", <<>>, <<>>),
      Reference(Before("sp", <<"/", "arm64">>), <<"library">>, "app", <<>>, <<>>) }

RECURSIVE JoinSegs(_)
JoinSegs(segs) ==
    IF segs = <<>> THEN <<>> ELSE <<Head(segs), "/">> \o JoinSegs(Tail(segs))

\* the final path segment as written: name and tag
FinalSegment(r) == <<r.name>> \o r.tag

\* the image reference as written, digest included
RefText(r) == JoinSegs(r.segs) \o FinalSegment(r) \o r.digest

TokenText(p) ==
    <<"--platform", IF p.form = "sp" THEN " " ELSE "=">> \o p.plat

LineText(r) ==
    CASE r.platform.pos = "none" -> RefText(r)
      [] r.platform.pos = "before" -> TokenText(r.platform) \o <<" ">> \o RefText(r)
      [] OTHER -> RefText(r) \o <<" ">> \o TokenText(r.platform)

SeqsUpTo(S, n) == UNION {[1..k -> S] : k \in 0..n}

\* ------------------------------------------------------------------------
\* Naming: the duplicate scan and the command construction on their own
\* ------------------------------------------------------------------------
NoSummary == [total |-> 0, success |-> 0, failed_items |-> <<>>]

InitNaming ==
    /\ origin \in SeqsUpTo(ImageSpecs, MaxLines)
    /\ lines = [i \in 1..Len(origin) |-> LineText(origin[i])]
    /\ env = FullEnv
    /\ MAX_CONCURRENT = 1
    /\ RETRY_COUNT = 0
    /\ fileExists = TRUE
    /\ fileText = lines
    /\ pc = "detect"
    /\ scanPos = 0
    /\ temp_map = EmptyMap
    /\ duplicates = {}
    /\ built = <<>>
    /\ sem = 0
    /\ tasks = <<>>
    /\ copies = 0
    /\ results = <<>>
    /\ summary = NoSummary
    /\ exitCode = -1
    /\ versionRc = -1
    /\ loginRc = -1

\* one iteration of the loop of detect_duplicates
ScanLine ==
    /\ pc = "detect"
    /\ scanPos < Len(lines)
    /\ LET next == ScanStep(temp_map, duplicates, lines[scanPos + 1])
       IN /\ temp_map' = next.temp_map
          /\ duplicates' = next.duplicates
    /\ scanPos' = scanPos + 1
    /\ UNCHANGED <<env, MAX_CONCURRENT, RETRY_COUNT, fileExists, fileText,
                   origin, pc, lines, built, sem, tasks, copies, results,
                   summary, exitCode, versionRc, loginRc>>

\* build_skopeo_copy_cmd for every line, once the scan has returned
BuildLines ==
    /\ pc = "detect"
    /\ scanPos = Len(lines)
    /\ Len(built) < Len(lines)
    /\ built' = [i \in 1..Len(lines) |-> build_skopeo_copy_cmd(lines[i], duplicates)]
    /\ UNCHANGED <<env, MAX_CONCURRENT, RETRY_COUNT, fileExists, fileText,
                   origin, pc, lines, scanPos, temp_map, duplicates, sem,
                   tasks, copies, results, summary, exitCode, versionRc,
                   loginRc>>

NextNaming == ScanLine \/ BuildLines

SpecNaming == InitNaming /\ [][NextNaming]_vars

\* ------------------------------------------------------------------------
\* run_cmd
\* ------------------------------------------------------------------------
\* what can happen to a subprocess: it exits with a code, it outlives the
\* timeout, or it cannot be started
\* a process may exit with any status; 0, 1 and 124 stand for them
ToolCodes == {0, 1, 124}
Outcomes == [kind : {"exit"}, code : ToolCodes]
              \cup {[kind |-> "timeout", code |-> 0], [kind |-> "exception", code |-> 0]}

\* the returncode run_cmd hands back
run_cmd(outcome) ==
    CASE outcome.kind = "exit" -> outcome.code
      [] outcome.kind = "timeout" -> 124
      [] OTHER -> 125

\* the stderr text run_cmd hands back: the tool's own, or the text made up
\* at lines 82 and 84
run_cmd_err(outcome) ==
    CASE outcome.kind = "exit" -> "STDERR"
      [] outcome.kind = "timeout" -> "TIMEOUT after"
      [] OTHER -> "EXCEPTION"

\* whether run_cmd called proc.kill() (line 79)
run_cmd_never_kills(outcome) == FALSE

run_cmd_kills(outcome) == outcome.kind = "timeout"

\* ------------------------------------------------------------------------
\* parse_images_file
\* ------------------------------------------------------------------------
Skipped(raw) == Strip(raw) = <<>> \/ Head(Strip(raw)) = "#"

parse_images_file(text) ==
    LET kept == SelectSeq(text, LAMBDA raw : ~Skipped(raw))
    IN [i \in 1..Len(kept) |-> Strip(kept[i])]

\* ------------------------------------------------------------------------
\* The run: main and the tasks it gathers
\* ------------------------------------------------------------------------
Comment == <<"#", " ", "images">>
Blank == <<" ">>

\* the i-th reference line of an input file of the given kind
RefLine(kind, i) ==
    IF kind = "same" \/ i % 3 = 1
    THEN <<"library", "/", "nginx", ":", "latest">>
    ELSE IF i % 3 = 2
    THEN <<" ", "otherorg", "/", "nginx", ":", "latest", " ">>
    ELSE <<"--platform", "=", "linux", "/", "arm64", " ", "library", "/", "app">>

\* an input file: a comment, n reference lines, a blank line
FileOf(kind, n) == <<Comment>> \o [i \in 1..n |-> RefLine(kind, i)] \o <<Blank>>

Files == {FileOf(kind, n) : kind \in {"same", "mixed"}, n \in 0..MaxTasks}

\* the lists of lines and the image names that these files give
FileLines == {parse_images_file(text) : text \in Files}

FileNames == UNION {{ImageName(ls[i]) : i \in 1..Len(ls)} : ls \in FileLines}

\* detect_duplicates and build_skopeo_copy_cmd on everything a run over
\* these files can hand them, worked out once; a run gets as far as
\* building a command only with all four settings in place
Detected ==
    [ls \in FileLines |->
        [temp_map |-> ScanTo(ls, Len(ls)).temp_map,
         duplicates |-> detect_duplicates(ls)]]

Commands ==
    {[line |-> line, dups |-> dups,
      built |-> CopyCommand(SettingValue("ALIYUN_REGISTRY"),
                            SettingValue("ALIYUN_NAME_SPACE"), line, dups)] :
        line \in UNION {{ls[i] : i \in 1..Len(ls)} : ls \in FileLines},
        dups \in SUBSET FileNames}

CommandFor(line, dups) ==
    (CHOOSE c \in Commands : c.line = line /\ c.dups = dups).built

NoBuild == [source |-> <<>>, target |-> <<>>, cmd |-> <<>>]
NoResult == [kind |-> "none", rc |-> 0, target |-> <<>>]

PendingTask ==
    [state |-> "pending", attempt |-> 0, rc |-> -1, backoff |-> 0,
     built |-> NoBuild, result |-> NoResult,
     slot |-> FALSE,        \* inside "async with semaphore"
     err |-> "",            \* stderr of the attempt that ended last
     killed |-> FALSE,      \* whether that attempt's process was killed
     slept |-> <<>>,        \* the backoff sleeps started so far
     invocations |-> <<>>]  \* the commands handed to run_cmd so far

Init ==
    /\ env \in [Settings -> {<<>>}] \cup {FullEnv}
                 \cup {[FullEnv EXCEPT ![k] = <<>>] : k \in Settings}
    /\ MAX_CONCURRENT \in 1..MaxConcurrentBound
    /\ RETRY_COUNT \in 0..MaxRetryBound
    /\ fileExists \in BOOLEAN
    /\ fileText \in IF fileExists THEN Files ELSE {<<>>}
    /\ origin = <<>>
    /\ pc = "config"
    /\ lines = <<>>
    /\ scanPos = 0
    /\ temp_map = EmptyMap
    /\ duplicates = {}
    /\ built = <<>>
    /\ sem = 0
    /\ tasks = <<>>
    /\ copies = 0
    /\ results = <<>>
    /\ summary = NoSummary
    /\ exitCode = -1
    /\ versionRc = -1
    /\ loginRc = -1

Abort ==
    /\ pc' = "aborted"
    /\ exitCode' = 1

\* the module-level check of the four settings (lines 33-35)
ConfigCheck ==
    /\ pc = "config"
    /\ IF ConfigComplete(env)
       THEN pc' = "version" /\ UNCHANGED exitCode
       ELSE Abort
    /\ UNCHANGED <<env, MAX_CONCURRENT, RETRY_COUNT, fileExists, fileText,
                   origin, lines, scanPos, temp_map, duplicates, built, sem,
                   tasks, copies, results, summary, versionRc, loginRc>>

\* "skopeo --version" (lines 229-234)
VersionCheck ==
    /\ pc = "version"
    /\ \E outcome \in Outcomes :
        /\ versionRc' = run_cmd(outcome)
        /\ IF versionRc' # 0
           THEN Abort
           ELSE pc' = "login" /\ UNCHANGED exitCode
    /\ UNCHANGED <<env, MAX_CONCURRENT, RETRY_COUNT, fileExists, fileText,
                   origin, lines, scanPos, temp_map, duplicates, built, sem,
                   tasks, copies, results, summary, loginRc>>

\* whether skopeo_login lets the run go on
LoginUnchecked(rc) == TRUE

LoginPassed(rc) == rc = 0

\* skopeo_login (lines 89-96)
Login ==
    /\ pc = "login"
    /\ \E outcome \in Outcomes :
        /\ loginRc' = run_cmd(outcome)
        /\ IF LoginPassed(loginRc')
           THEN pc' = "parse" /\ UNCHANGED exitCode
           ELSE Abort
    /\ UNCHANGED <<env, MAX_CONCURRENT, RETRY_COUNT, fileExists, fileText,
                   origin, lines, scanPos, temp_map, duplicates, built, sem,
                   tasks, copies, results, summary, versionRc>>

\* parse_images_file, detect_duplicates, the semaphore and the task list
\* (lines 240-249): nothing is awaited in between
ParseAndDispatch ==
    /\ pc = "parse"
    /\ IF fileExists
       THEN /\ lines' = parse_images_file(fileText)
            /\ scanPos' = Len(lines')
            /\ temp_map' = Detected[lines'].temp_map
            /\ duplicates' = Detected[lines'].duplicates
            /\ sem' = MAX_CONCURRENT
            /\ tasks' = [i \in 1..Len(lines') |-> PendingTask]
            /\ pc' = "gather"
            /\ UNCHANGED exitCode
       ELSE /\ Abort
            /\ UNCHANGED <<lines, scanPos, temp_map, duplicates, sem, tasks>>
    /\ UNCHANGED <<env, MAX_CONCURRENT, RETRY_COUNT, fileExists, fileText,
                   origin, built, copies, results, summary, versionRc, loginRc>>

TaskVarsOnly ==
    UNCHANGED <<env, MAX_CONCURRENT, RETRY_COUNT, fileExists, fileText, origin,
                pc, lines, scanPos, temp_map, duplicates, built, results,
                summary, exitCode, versionRc, loginRc>>

\* the semaphore lets a task in
SlotAlways == TRUE

SlotFree == sem > 0

\* while attempt <= RETRY_COUNT (line 195)
LoopContinues(attempt) == attempt <= RETRY_COUNT

\* if attempt <= RETRY_COUNT (line 213)
BudgetShort(attempt) == attempt < RETRY_COUNT

BudgetLeft(attempt) == attempt <= RETRY_COUNT

\* backoff = 2 ** (attempt - 1) (line 214)
BackoffDouble(attempt) == 2 ^ attempt

Backoff(attempt) == 2 ^ (attempt - 1)

\* the free slots after the task leaves "async with semaphore"
AfterLostRelease(free) == free

AfterRelease(free) == free + 1

\* the free slots once the task sleeps at line 216, which is inside the
\* "async with" of line 190
AfterSleepReleasing(free) == free + 1

AfterSleepStarts(free) == free

\* rc or 1
RcOr1(rc) == IF rc # 0 THEN rc ELSE 1

TupleResult(rc, target) == [kind |-> "tuple", rc |-> rc, target |-> target]
ExceptionResult == [kind |-> "exception", rc |-> 0, target |-> <<>>]

\* the top of the loop body: attempt += 1 and the copy is started; a loop
\* that is not entered lets the coroutine return None
EnterLoop(t) ==
    IF LoopContinues(t.attempt)
    THEN [t EXCEPT !.state = "running", !.attempt = @ + 1, !.rc = -1,
                   !.err = "", !.killed = FALSE,
                   !.invocations = Append(@, t.built.cmd)]
    ELSE [t EXCEPT !.state = "done", !.result = NoResult, !.slot = FALSE]

\* "async with semaphore" admits task i: the semaphore wakes waiters in the
\* order they arrived, which is the order of the task list; the command is
\* built and the first attempt starts (lines 190-199)
Acquire(i) ==
    /\ pc = "gather"
    /\ tasks[i].state = "pending"
    /\ \A j \in 1..(i-1) : tasks[j].state # "pending"
    /\ SlotFree
    /\ LET t == EnterLoop([tasks[i] EXCEPT
                             !.slot = TRUE,
                             !.built = CommandFor(lines[i], duplicates)])
       IN /\ tasks' = [tasks EXCEPT ![i] = t]
          /\ sem' = IF t.state = "running" THEN sem - 1 ELSE AfterRelease(sem - 1)
          /\ copies' = IF t.state = "running" THEN copies + 1 ELSE copies
    /\ TaskVarsOnly

\* run_cmd returns to task i (lines 199-219)
AttemptEnds(i) ==
    /\ pc = "gather"
    /\ tasks[i].state = "running"
    /\ \E outcome \in Outcomes :
        LET rc == run_cmd(outcome)
            t == [tasks[i] EXCEPT !.rc = rc, !.err = run_cmd_err(outcome),
                                  !.killed = run_cmd_kills(outcome)]
        IN IF rc = 0
           THEN /\ tasks' = [tasks EXCEPT ![i] =
                      [t EXCEPT !.state = "done", !.slot = FALSE,
                                !.result = TupleResult(0, t.built.target)]]
                /\ sem' = AfterRelease(sem)
           ELSE IF BudgetLeft(t.attempt)
           THEN /\ tasks' = [tasks EXCEPT ![i] =
                      [t EXCEPT !.state = "sleeping",
                                !.backoff = Backoff(t.attempt),
                                !.slept = Append(@, Backoff(t.attempt))]]
                /\ sem' = AfterSleepStarts(sem)
           ELSE /\ tasks' = [tasks EXCEPT ![i] =
                      [t EXCEPT !.state = "done", !.slot = FALSE,
                                !.result = TupleResult(RcOr1(rc), t.built.target)]]
                /\ sem' = AfterRelease(sem)
    /\ UNCHANGED copies
    /\ TaskVarsOnly

\* asyncio.sleep(backoff) is over: back to the top of the loop
Wake(i) ==
    /\ pc = "gather"
    /\ tasks[i].state = "sleeping"
    /\ LET t == EnterLoop(tasks[i])
       IN /\ tasks' = [tasks EXCEPT ![i] = t]
          /\ sem' = IF t.state = "running" THEN sem ELSE AfterRelease(sem)
          /\ copies' = IF t.state = "running" THEN copies + 1 ELSE copies
    /\ TaskVarsOnly

\* something other than the copy tool fails inside the task (a write to the
\* log file, lines 57-59): the exception leaves "async with", which
\* releases the slot, and becomes the task's result in gather
Fault(i) ==
    /\ pc = "gather"
    /\ tasks[i].state = "running"
    /\ tasks' = [tasks EXCEPT ![i] =
                    [@ EXCEPT !.state = "done", !.rc = -1, !.slot = FALSE,
                              !.result = ExceptionResult]]
    /\ sem' = AfterRelease(sem)
    /\ UNCHANGED copies
    /\ TaskVarsOnly

\* one iteration of the tally (lines 254-264)
TallyStepLenient(acc, r) ==
    IF r.kind = "tuple"
    THEN IF r.rc = 0
         THEN [acc EXCEPT !.success = @ + 1]
         ELSE [acc EXCEPT !.failed_items = Append(@, <<r.target, r.rc>>)]
    ELSE acc

TallyStep(acc, r) ==
    IF r.kind = "tuple"
    THEN IF r.rc = 0
         THEN [acc EXCEPT !.success = @ + 1]
         ELSE [acc EXCEPT !.failed_items = Append(@, <<r.target, r.rc>>)]
    ELSE [acc EXCEPT !.failed_items = Append(@, <<"unknown", 1>>)]

Tally(rs) ==
    LET f[i \in 0..Len(rs)] ==
          IF i = 0 THEN [total |-> Len(lines), success |-> 0, failed_items |-> <<>>]
          ELSE TallyStep(f[i-1], rs[i])
    IN f[Len(rs)]

\* what "await asyncio.gather" waits for (line 249)
AnyReturned == \E i \in 1..Len(tasks) : tasks[i].state = "done"

AllReturned == \A i \in 1..Len(tasks) : tasks[i].state = "done"

\* gather returns once every task has returned; the summary and the exit
\* code follow without a further await (lines 249-276)
Summarise ==
    /\ pc = "gather"
    /\ AllReturned
    /\ results' = [i \in 1..Len(tasks) |-> tasks[i].result]
    /\ summary' = Tally(results')
    /\ exitCode' = IF summary'.failed_items # <<>> THEN 1 ELSE 0
    /\ pc' = "done"
    /\ UNCHANGED <<env, MAX_CONCURRENT, RETRY_COUNT, fileExists, fileText,
                   origin, lines, scanPos, temp_map, duplicates, built, sem,
                   tasks, copies, versionRc, loginRc>>

Next ==
    \/ ConfigCheck
    \/ VersionCheck
    \/ Login
    \/ ParseAndDispatch
    \/ \E i \in 1..Len(tasks) : Acquire(i)
    \/ \E i \in 1..Len(tasks) : AttemptEnds(i)
    \/ \E i \in 1..Len(tasks) : Wake(i)
    \/ \E i \in 1..Len(tasks) : Fault(i)
    \/ Summarise

Spec == Init /\ [][Next]_vars

\* the steps the event loop is bound to take: it runs a callback that is
\* ready, wait_for cuts every copy off after PER_IMAGE_TIMEOUT (lines
\* 75-82) and every sleep is finite; nothing obliges a task to raise
Scheduled ==
    \/ ConfigCheck
    \/ VersionCheck
    \/ Login
    \/ ParseAndDispatch
    \/ \E i \in 1..Len(tasks) : Acquire(i)
    \/ \E i \in 1..Len(tasks) : AttemptEnds(i)
    \/ \E i \in 1..Len(tasks) : Wake(i)
    \/ Summarise

\* the loop does not stand still while one of these steps is possible
Fairness == WF_vars(Scheduled)

SpecFair == Spec /\ Fairness

\* ------------------------------------------------------------------------
\* Properties of the run
\* ------------------------------------------------------------------------
TaskIds == 1..Len(tasks)

\* the tasks inside "async with semaphore"
Holders == {i \in TaskIds : tasks[i].state \in {"running", "sleeping"}}

\* the tasks whose copy invocation is in progress
Copying == {i \in TaskIds : tasks[i].state = "running"}

\* C1: at most MAX_CONCURRENT tasks hold an admission slot, and so at most
\* MAX_CONCURRENT copy invocations are in progress.
C1_ConcurrencyBound ==
    /\ Cardinality(Holders) <= MAX_CONCURRENT
    /\ Cardinality(Copying) <= MAX_CONCURRENT

\* every slot is taken by a running copy while another task still waits
C1_Witness ==
    /\ MAX_CONCURRENT = 2
    /\ Cardinality(Copying) = 2
    /\ \E i \in TaskIds : tasks[i].state = "pending"

ResolvedFailed(t) ==
    t.state = "done" /\ t.result.kind = "tuple" /\ t.result.rc # 0

\* C2: attempt n+1 starts only after attempt n ended non-zero with
\* n <= RETRY_COUNT; a task whose attempts all fail makes RETRY_COUNT+1
\* attempts and resolves Failed with the exit code of the last one; an
\* attempt that exits 0 resolves the task at once, for good.
C2_RetryPolicy ==
    /\ [](\A i \in TaskIds :
            /\ tasks[i].attempt <= RETRY_COUNT + 1
            /\ ResolvedFailed(tasks[i]) =>
                  /\ tasks[i].attempt = RETRY_COUNT + 1
                  /\ tasks[i].rc \in {1, 124, 125}
                  /\ tasks[i].result.rc = tasks[i].rc)
    /\ [][\A i \in TaskIds :
            /\ tasks'[i].attempt # tasks[i].attempt =>
                  /\ tasks'[i].attempt = tasks[i].attempt + 1
                  /\ tasks'[i].state = "running"
                  /\ tasks[i].attempt >= 1 =>
                        /\ tasks[i].state = "sleeping"
                        /\ tasks[i].rc \in {1, 124, 125}
                        /\ tasks[i].attempt <= RETRY_COUNT
            /\ (tasks[i].state = "running" /\ tasks'[i].rc = 0) =>
                  /\ tasks'[i].state = "done"
                  /\ tasks'[i].result = [kind |-> "tuple", rc |-> 0,
                                         target |-> tasks[i].built.target]
                  /\ tasks'[i].attempt = tasks[i].attempt
            /\ (tasks[i].state = "running" /\ tasks'[i].rc \in {1, 124, 125}) =>
                  IF tasks[i].attempt <= RETRY_COUNT
                  THEN tasks'[i].state = "sleeping"
                  ELSE ResolvedFailed(tasks'[i])
            /\ tasks[i].state = "done" => tasks'[i] = tasks[i]
         ]_vars

\* a task failed its first attempt, was retried, timed out and resolved
\* Failed with 124
C2_Witness ==
    /\ RETRY_COUNT = 1
    /\ \E i \in TaskIds :
        /\ ResolvedFailed(tasks[i])
        /\ tasks[i].attempt = 2
        /\ tasks[i].result.rc = 124

\* the last copy attempt of task i exited 0
Succeeded(i) == tasks[i].state = "done" /\ tasks[i].rc = 0

\* C3: a run that dispatched its tasks exits 0 if and only if every task
\* succeeded, and exits 1 if some task failed.
C3_ExitCode ==
    pc = "done" =>
        /\ (exitCode = 0) <=> (\A i \in TaskIds : Succeeded(i))
        /\ (\E i \in TaskIds : ~Succeeded(i)) => exitCode = 1

\* the run exited 1 because of one task that raised, all others succeeded
C3_Witness ==
    /\ pc = "done"
    /\ exitCode = 1
    /\ Len(tasks) >= 2
    /\ \E i \in TaskIds :
        /\ tasks[i].result.kind = "exception"
        /\ \A j \in TaskIds \ {i} : Succeeded(j)

\* a setting is missing, the version check or the login failed, or the
\* input file is not there
FatalSetup ==
    \/ \E k \in Settings : env[k] = <<>>
    \/ versionRc > 0
    \/ loginRc > 0
    \/ ~fileExists

\* C4: after a fatal setup error no copy is ever started, no task is
\* dispatched, and the run can only end with exit code 1.
C4_AbortBeforeCopies ==
    FatalSetup =>
        /\ copies = 0
        /\ tasks = <<>>
        /\ pc \notin {"gather", "done"}
        /\ exitCode \in {-1, 1}
        /\ pc = "aborted" <=> exitCode = 1

\* the login failed although the settings and a file with references
\* were there
C4_Witness ==
    /\ pc = "aborted"
    /\ exitCode = 1
    /\ loginRc = 1
    /\ env = FullEnv
    /\ fileExists
    /\ Len(parse_images_file(fileText)) >= 2

\* the sleeps 1, 2, 4, ... after the first k failed attempts
PowersOfTwo(k) == [n \in 1..k |-> 2 ^ (n - 1)]

\* C11: after its n-th failed attempt, n <= RETRY_COUNT, a task sleeps
\* 2^(n-1) seconds and then hands run_cmd the very command it built when
\* it started; no sleep follows a success or the last failed attempt.
C11_BackoffAndSameCommand ==
    /\ [](\A i \in TaskIds :
            LET t == tasks[i] IN
            /\ t.slept = PowersOfTwo(Len(t.slept))
            /\ Len(t.slept) <= RETRY_COUNT
            /\ Len(t.slept) = IF t.state = "sleeping" THEN t.attempt
                              ELSE IF t.attempt = 0 THEN 0 ELSE t.attempt - 1
            /\ t.state = "sleeping" => t.rc \in {1, 124, 125}
            /\ Len(t.invocations) = t.attempt
            /\ \A n \in 1..Len(t.invocations) :
                  /\ t.invocations[n] = t.invocations[1]
                  /\ Last(t.invocations[n]) = t.built.target
                  /\ t.invocations[n][Len(t.invocations[n]) - 1] = t.built.source)
    /\ [][\A i \in TaskIds :
            tasks[i].attempt >= 1 => tasks'[i].built = tasks[i].built]_vars

\* a task runs its second attempt after one sleep of 1 second
C11_Witness ==
    \E i \in TaskIds :
        /\ tasks[i].state = "running"
        /\ tasks[i].attempt = 2
        /\ tasks[i].slept = <<1>>
        /\ Len(tasks[i].invocations) = 2

Pending == {i \in TaskIds : tasks[i].state = "pending"}

\* a step changes the record of at most one task
OneTaskAtATime ==
    \A i \in TaskIds :
        tasks'[i] # tasks[i] => \A j \in TaskIds \ {i} : tasks'[j] = tasks[j]

\* C13 as stated: a failure, retry, backoff or timeout of one task never
\* keeps a pending sibling from running: with fewer than MAX_CONCURRENT
\* copies in progress a slot is free for it.
C13_NeverBlocksSibling ==
    (pc = "gather" /\ Pending # {} /\ Cardinality(Copying) < MAX_CONCURRENT)
        => sem > 0

\* C13 as amended: no step of one task touches a sibling, and a pending
\* sibling finds no free slot only while MAX_CONCURRENT tasks, running
\* or in backoff, have not resolved yet.
C13_OnlyUnresolvedTasksBlock ==
    /\ []((pc = "gather" /\ Pending # {} /\ sem <= 0)
            => Cardinality(Holders) = MAX_CONCURRENT)
    /\ [][OneTaskAtATime]_vars

\* the only admitted task sleeps before its retry while a sibling waits
C13_Witness ==
    /\ MAX_CONCURRENT = 1
    /\ sem = 0
    /\ Pending # {}
    /\ Copying = {}
    /\ \E i \in TaskIds : tasks[i].state = "sleeping"

\* C14 as stated: a task holds a slot exactly while it is Running.
C14_SlotOnlyWhileRunning ==
    \A i \in TaskIds : tasks[i].slot <=> tasks[i].state = "running"

\* C14 as amended: a task holds a slot from its admission until it
\* resolves, through every attempt and every backoff sleep; a pending or
\* resolved task holds none, and the free slots are those not held.
C14_SlotUntilResolved ==
    /\ \A i \in TaskIds :
          tasks[i].slot <=> tasks[i].state \in {"running", "sleeping"}
    /\ pc = "gather" =>
          sem = MAX_CONCURRENT - Cardinality({i \in TaskIds : tasks[i].slot})

\* a task sleeps between two attempts and holds its slot
C14_Witness ==
    \E i \in TaskIds :
        /\ tasks[i].state = "sleeping"
        /\ tasks[i].slot
        /\ sem = MAX_CONCURRENT - 1

\* C18: a task keeps its slot from its first attempt until it resolves:
\* at most MAX_CONCURRENT tasks are started and unresolved, a task is
\* admitted only while fewer than that are, and a slot comes free only
\* when a task resolves.
C18_SlotKeptUntilResolved ==
    /\ [](pc = "gather" =>
            /\ Cardinality(Holders) <= MAX_CONCURRENT
            /\ sem = MAX_CONCURRENT - Cardinality(Holders))
    /\ [][\A i \in TaskIds :
            (tasks[i].state = "pending" /\ tasks'[i].state # "pending")
                => Cardinality(Holders) < MAX_CONCURRENT]_vars
    /\ [][(pc = "gather" /\ sem' > sem) =>
            \E i \in Holders : tasks'[i].state = "done"]_vars

\* with one slot, the second task runs after the first went through a
\* backoff and resolved
C18_Witness ==
    /\ MAX_CONCURRENT = 1
    /\ Len(tasks) >= 2
    /\ tasks[1].state = "done"
    /\ tasks[1].attempt = 2
    /\ tasks[2].state = "running"

\* the entry of the failed list that a task which did not succeed gets
FailedEntry(t) ==
    IF t.result.kind = "tuple"
    THEN <<t.result.target, t.result.rc>>
    ELSE <<"unknown", 1>>

\* the tasks that did not succeed, in the order of the input lines
NotSucceeded ==
    SelectSeq([i \in TaskIds |-> tasks[i]],
              LAMBDA t : ~(t.result.kind = "tuple" /\ t.result.rc = 0))

\* C15: no summary exists before every task is terminal; the summary's
\* total is the number of non-blank, non-comment input lines, succeeded
\* plus the length of failed is total, and failed holds, in input order,
\* one (destination, non-zero code) entry per task that did not succeed.
C15_SummaryAfterAll ==
    /\ pc # "done" => summary = NoSummary /\ results = <<>>
    /\ pc = "done" =>
        /\ \A i \in TaskIds : tasks[i].state = "done"
        /\ Len(tasks) = Len(lines)
        /\ summary.total =
              Cardinality({k \in 1..Len(fileText) : ~Skipped(fileText[k])})
        /\ summary.success = Cardinality({i \in TaskIds : Succeeded(i)})
        /\ summary.success + Len(summary.failed_items) = summary.total
        /\ summary.failed_items =
              [k \in 1..Len(NotSucceeded) |-> FailedEntry(NotSucceeded[k])]
        /\ \A k \in 1..Len(summary.failed_items) :
              summary.failed_items[k][2] # 0

\* a summary over three lines: one succeeded, one failed after a retry,
\* one raised
C15_Witness ==
    /\ pc = "done"
    /\ summary.total = 3
    /\ summary.success = 1
    /\ Len(summary.failed_items) = 2
    /\ \E i, j \in TaskIds :
        /\ ResolvedFailed(tasks[i]) /\ tasks[i].attempt = 2
        /\ tasks[j].result.kind = "exception"

\* C16: a copy attempt is started only after the version check and the
\* login returned 0 and the duplicate scan went over every input line;
\* the command a task takes on admission is built from the outcome of
\* that whole scan and kept from then on, and once the tasks exist
\* neither the lines nor the duplicates change.
C16_LoginAndScanFirst ==
    /\ []((copies > 0 \/ \E i \in TaskIds : tasks[i].state # "pending") =>
            /\ versionRc = 0
            /\ loginRc = 0
            /\ scanPos = Len(lines)
            /\ duplicates = ScanTo(lines, Len(lines)).duplicates)
    /\ [][\A i \in TaskIds :
            /\ (tasks[i].state = "pending" /\ tasks'[i].state # "pending") =>
                  tasks'[i].built = build_skopeo_copy_cmd(
                                       lines[i], ScanTo(lines, Len(lines)).duplicates)
            /\ tasks[i].state # "pending" => tasks'[i].built = tasks[i].built]_vars
    /\ [][pc = "gather" =>
            /\ duplicates' = duplicates
            /\ temp_map' = temp_map
            /\ lines' = lines]_vars

\* the first line's copy runs with a name that only the second line makes
\* a duplicate, while the second task has not been admitted
C16_Witness ==
    /\ pc = "gather"
    /\ loginRc = 0
    /\ Len(lines) >= 2
    /\ duplicates # {}
    /\ ScanTo(lines, 1).duplicates = {}
    /\ tasks[1].state = "running"
    /\ tasks[1].built.target # <<>>
    /\ tasks[1].built = build_skopeo_copy_cmd(lines[1], duplicates)
    /\ tasks[1].built # build_skopeo_copy_cmd(lines[1], {})
    /\ tasks[2].state = "pending"

Raised(t) == t.result.kind = "exception"

\* C17: a task that raises is resolved by that very step, gives its slot
\* back and leaves every sibling as it was; the run goes on to the
\* summary, where the task is listed as ("unknown", 1) at its place among
\* the failures and the exit code is 1.
C17_FaultIsFailure ==
    /\ [][\A i \in TaskIds :
            (~Raised(tasks[i]) /\ Raised(tasks'[i])) =>
                /\ tasks'[i].state = "done"
                /\ tasks[i].slot /\ ~tasks'[i].slot
                /\ sem' = sem + 1
                /\ pc' = "gather"
                /\ \A j \in TaskIds \ {i} : tasks'[j] = tasks[j]]_vars
    /\ [](pc = "done" =>
            \A i \in TaskIds :
                Raised(tasks[i]) =>
                    /\ exitCode = 1
                    /\ summary.failed_items[
                          Cardinality({j \in 1..i : ~Succeeded(j)})] = <<"unknown", 1>>)
    /\ (\E i \in TaskIds : Raised(tasks[i])) ~> (pc = "done")

\* the first task raised while the gate of size one kept two siblings
\* waiting, and both went on to succeed
C17_Witness ==
    /\ pc = "done"
    /\ MAX_CONCURRENT = 1
    /\ Len(tasks) = 3
    /\ Raised(tasks[1])
    /\ Succeeded(2) /\ Succeeded(3)
    /\ summary.failed_items = << <<"unknown", 1>> >>
    /\ exitCode = 1

\* C19: once the tasks are dispatched, the run reaches its summary; by
\* then every task is Succeeded or Failed, none holds a slot and all
\* MAX_CONCURRENT slots are free.
C19_EveryTaskTerminates ==
    /\ (pc = "gather") ~> (pc = "done")
    /\ [](pc = "done" =>
            /\ \A i \in TaskIds :
                  /\ tasks[i].state = "done"
                  /\ Succeeded(i) \/ ResolvedFailed(tasks[i]) \/ Raised(tasks[i])
                  /\ ~tasks[i].slot
            /\ results = [i \in TaskIds |-> tasks[i].result]
            /\ summary = Tally(results)
            /\ sem = MAX_CONCURRENT)

\* three tasks went through a gate of size one, each after a retry
C19_Witness ==
    /\ pc = "done"
    /\ MAX_CONCURRENT = 1
    /\ RETRY_COUNT = 1
    /\ Len(tasks) = 3
    /\ \A i \in TaskIds : tasks[i].attempt = 2
    /\ sem = 1
    /\ summary.total = 3

\* ------------------------------------------------------------------------
\* Properties of the naming
\* ------------------------------------------------------------------------
ScanDone == pc = "detect" /\ scanPos = Len(lines)

\* the source namespace of a reference as written: its second-to-last
\* path segment
WrittenNamespace(r) == Last(r.segs)

\* the namespaces under which a name was written in the input
NamespacesOf(name) ==
    {WrittenNamespace(origin[i]) : i \in {k \in 1..Len(origin) : origin[k].name = name}}

\* the input holds only bare references of two or more path segments
OnlyDeepBareReferences ==
    \A i \in 1..Len(origin) :
        origin[i].platform.pos = "none" /\ Len(origin[i].segs) >= 1

\* C5: after duplicate detection a name is flagged if and only if it was
\* written under at least two distinct source namespaces, the namespace
\* being the second-to-last path segment at any depth.
C5_FlaggedIffTwoNamespaces ==
    (ScanDone /\ OnlyDeepBareReferences) =>
        \A i \in 1..Len(origin) :
            (<<origin[i].name>> \in duplicates)
                <=> (Cardinality(NamespacesOf(origin[i].name)) >= 2)

Permuted(ls, p) == [i \in 1..Len(ls) |-> ls[p[i]]]

\* C6: the flagged set is the same for every permutation of the input
\* lines, and a name flagged during the scan stays flagged.
C6_OrderIndependent ==
    /\ [](ScanDone =>
            \A p \in Permutations(1..Len(lines)) :
                detect_duplicates(Permuted(lines, p)) = duplicates)
    /\ [][duplicates \subseteq duplicates']_vars

\* a name was flagged by the second line and the third line repeats the
\* namespace first seen for it
C6_Witness ==
    /\ ScanDone
    /\ Len(lines) = 3
    /\ ImageName(lines[3]) \in ScanTo(lines, 2).duplicates
    /\ NamespaceOf(lines[3]) = temp_map[ImageName(lines[3])]
    /\ ImageName(lines[3]) \in duplicates

\* the platform suffix as the line spells it: the value of the token with
\* its slashes turned into hyphens
WrittenSuffix(r) ==
    IF r.platform.pos = "none" THEN <<>>
    ELSE <<"-">> \o [k \in 1..Len(r.platform.plat) |->
                        IF r.platform.plat[k] = "/" THEN "-" ELSE r.platform.plat[k]]

Repository == <<"docker", ":", "/", "/", "registry", "/", "ns", "/">>

\* C7: a line whose name is flagged and whose reference has two or more
\* segments goes to <registry>/<namespace>/<P>_<final segment><suffix>, P
\* being the segment before the final one; any other line gets no prefix.
C7_DestinationPrefix ==
    \A i \in 1..Len(built) :
        LET r == origin[i] IN
        r.platform.pos # "after" =>
            built[i].target =
                Repository
                \o (IF <<r.name>> \in duplicates /\ Len(r.segs) >= 1
                    THEN <<Last(r.segs), "_">> ELSE <<>>)
                \o FinalSegment(r) \o WrittenSuffix(r)

\* library/nginx:latest and otherorg/nginx:latest, both built
C7_Witness ==
    /\ Len(built) = 2
    /\ lines = << <<"library", "/", "nginx", ":", "latest">>,
                  <<"otherorg", "/", "nginx", ":", "latest">> >>
    /\ built[1].target = Repository \o <<"library", "_", "nginx", ":", "latest">>
    /\ built[2].target = Repository \o <<"otherorg", "_", "nginx", ":", "latest">>

\* C8: for a reference with a digest, the copy source still carries the
\* digest; only the name and the destination drop it.
C8_SourceKeepsDigest ==
    \A i \in 1..Len(built) :
        LET r == origin[i] IN
        (r.platform.pos # "after" /\ r.digest # <<>>) =>
            /\ built[i].source = <<"docker", ":", "/", "/">> \o RefText(r)
            /\ ImageName(lines[i]) = <<r.name>>

\* os and arch of a platform value, with the defaults for a missing or
\* empty component
SlashAt(plat) == {k \in 1..Len(plat) : plat[k] = "/"}
WrittenOs(plat) == IF plat # <<>> /\ plat[1] # "/" THEN plat[1] ELSE "linux"
WrittenArch(plat) ==
    IF \E k \in SlashAt(plat) : k < Len(plat)
    THEN plat[(CHOOSE k \in SlashAt(plat) : \A j \in SlashAt(plat) : k <= j) + 1]
    ELSE "amd64"

EndsWith(s, t) ==
    Len(s) >= Len(t) /\ SubSeq(s, Len(s) - Len(t) + 1, Len(s)) = t

\* C9: a line with a platform token gets --override-os <os>
\* --override-arch <arch> and a destination ending in -<os>-<arch> with
\* those same values; a line without one gets neither flags nor suffix.
C9_SuffixMatchesOverride ==
    \A i \in 1..Len(built) :
        LET r == origin[i]
            os == WrittenOs(r.platform.plat)
            arch == WrittenArch(r.platform.plat)
        IN IF r.platform.pos = "before"
           THEN /\ SubSeq(built[i].cmd, 3, 6) =
                      << <<"--override-os">>, <<os>>, <<"--override-arch">>, <<arch>> >>
                /\ EndsWith(built[i].target, FinalSegment(r) \o <<"-", os, "-", arch>>)
           ELSE r.platform.pos = "none" =>
                /\ Len(built[i].cmd) = 4
                /\ EndsWith(built[i].target, <<"/">> \o FinalSegment(r))

\* two references that differ only in where the platform token stands
Swapped(r, q) ==
    /\ r.platform.pos = "before"
    /\ q = [r EXCEPT !.platform.pos = "after"]

\* C10: a line gives the same reference, duplicate key, source,
\* destination and platform whether its platform token stands before or
\* after the reference.
C10_TokenAnywhere ==
    \A i, j \in 1..Len(built) :
        Swapped(origin[i], origin[j]) =>
            /\ ImageOf(lines[i]) = ImageOf(lines[j])
            /\ ImageName(lines[i]) = ImageName(lines[j])
            /\ NamespaceOf(lines[i]) = NamespaceOf(lines[j])
            /\ PlatformOf(lines[i]) = PlatformOf(lines[j])
            /\ built[i].source = built[j].source
            /\ built[i].target = built[j].target

\* C20: two lines whose references differ in their path segments or in
\* their digest, while the final name:tag segment and the platform are
\* the same, are never given the same destination.
C20_DestinationsNeverCollide ==
    \A i, j \in 1..Len(built) :
        LET r == origin[i]
            q == origin[j]
        IN (/\ i # j
            /\ r.segs # q.segs \/ r.digest # q.digest
            /\ FinalSegment(r) = FinalSegment(q)
            /\ r.platform.plat = q.platform.plat)
           => built[i].target # built[j].target

\* library/nginx:latest and quay/library/nginx:latest, both built: two
\* different sources, one destination
C20_Collision ==
    /\ Len(built) = 2
    /\ lines = << <<"library", "/", "nginx", ":", "latest">>,
                  <<"quay", "/", "library", "/", "nginx", ":", "latest">> >>
    /\ built[1].source # built[2].source
    /\ built[1].target = built[2].target
    /\ built[1].target = Repository \o <<"nginx", ":", "latest">>

====
